---- MODULE Spec2Model ----
(***************************************************************************)
(* Model of src/messaging/mod.rs: the message envelope (MsgEnvelope), the  *)
(* message kinds (Message), addressing (Address, destination()), and the   *)
(* query response taxonomy with its typed extraction (try_from!) and debug *)
(* rendering (impl fmt::Debug for QueryResponse).                          *)
(***************************************************************************)
EXTENDS Integers, Sequences, FiniteSets, TLC

(***************************************************************************)
(* Bounds of the model.                                                    *)
(***************************************************************************)
NumIds == 2          \* distinct MessageId values
NumNames == 2        \* distinct XorName values
NumKeys == 1         \* distinct PublicKey values
MaxInitProxies == 1  \* longest proxies list an envelope is constructed with
MaxCalls == 2        \* add_proxy calls made on one envelope in transit
MaxHops == 1         \* add_proxy calls made on one envelope while it is routed
NumValues == 2       \* distinct success payloads per payload type

(***************************************************************************)
(* Primitive value spaces.                                                 *)
(***************************************************************************)
XorNames == 1..NumNames
PublicKeys == 1..NumKeys
Signatures == {"sig"}
Duties == {"Elder"}
Errors == {"AccessDenied", "NoSuchData"}

\* pub struct MessageId(pub XorName)
MessageId == [name : 1..NumIds]

\* pub enum Address { Client(XorName), Node(XorName), Section(XorName) }
AddressClient(n) == [tag |-> "Client", name |-> n]
AddressNode(n) == [tag |-> "Node", name |-> n]
AddressSection(n) == [tag |-> "Section", name |-> n]
Address == [tag : {"Client", "Node", "Section"}, name : XorNames]

\* Address::xorname
xorname(a) == a.name

\* XorName::from(PublicKey): a key's network name (not the key itself).
PublicKeyIntoXorName(pk) == (pk % NumNames) + 1

\* pub enum MsgSender { Client{id,signature}, Node{id,duty,signature},
\*                      Section{id,duty,signature} }
MsgSender ==
    [variant : {"Client"}, id : PublicKeys, signature : Signatures]
    \cup [variant : {"Node", "Section"}, id : PublicKeys, duty : Duties,
          signature : Signatures]

\* MsgSender::address
address(s) == PublicKeyIntoXorName(s.id)

(***************************************************************************)
(* Payloads of the message kinds.  Cmd, Query, NetworkCmd and NetworkEvent *)
(* resolve their own target through dst_address().                         *)
(***************************************************************************)
Cmd == [kind : {"Data"}, target : XorNames]
Query == [kind : {"Data"}, target : XorNames]
NetworkCmd == [kind : {"Replicate"}, target : {AddressNode(1), AddressSection(NumNames)}]
NetworkEvent == [kind : {"Replicated"}, target : {AddressNode(NumNames), AddressSection(1)}]
NetworkCmdError == {"NetworkData"}

Cmd_dst_address(cmd) == cmd.target
Query_dst_address(query) == query.target
NetworkCmd_dst_address(cmd) == cmd.target
NetworkEvent_dst_address(event) == event.target

\* pub enum Event { TransferValidated(..), TransferDebitAgreementReached(..) }
\* `from` is the key returned by the payload's from().
Event == [variant : {"TransferValidated", "TransferDebitAgreementReached"},
          from : PublicKeys]

\* Event::dst_address
Event_dst_address(event) ==
    CASE event.variant = "TransferValidated" -> PublicKeyIntoXorName(event.from)
      [] event.variant = "TransferDebitAgreementReached" -> PublicKeyIntoXorName(event.from)

\* pub enum TransferError, pub enum CmdError
TransferError == [variant : {"TransferValidation"}, error : {"AccessDenied"}]
CmdError == [variant : {"Auth"}, error : {"AccessDenied"}]
            \cup [variant : {"Transfer"}, error : TransferError]

(***************************************************************************)
(* QueryResponse: one variant per queryable resource, each wrapping a      *)
(* Result<T> of the variant's own payload type.                            *)
(***************************************************************************)
Ok(data) == [tag |-> "Ok", data |-> data]
Err(error) == [tag |-> "Err", error |-> error]

\* The payload type each QueryResponse variant wraps.
PayloadOf ==
    [GetBlob |-> "IData",
     GetMap |-> "Map",
     GetMapShell |-> "Map",
     GetMapVersion |-> "u64",
     ListMapEntries |-> "MapEntries",
     ListMapKeys |-> "BTreeSet<Vec<u8>>",
     ListMapValues |-> "MapValues",
     ListMapUserPermissions |-> "MapPermissionSet",
     ListMapPermissions |-> "BTreeMap<PublicKey, MapPermissionSet>",
     GetMapValue |-> "MapValue",
     GetSequence |-> "Sequence",
     GetSequenceOwner |-> "SequenceOwner",
     GetSequenceRange |-> "SequenceEntries",
     GetSequenceLastEntry |-> "(u64, SequenceEntry)",
     GetSequencePermissions |-> "SequencePermissions",
     GetSequenceUserPermissions |-> "SequenceUserPermissions",
     GetReplicaKeys |-> "ReplicaPublicKeySet",
     GetBalance |-> "Money",
     GetHistory |-> "Vec<ReplicaEvent>",
     GetAccount |-> "(Vec<u8>, Signature)",
     ListAuthKeysAndVersion |-> "(BTreeMap<PublicKey, AppPermissions>, u64)"]

QueryResponseVariants == DOMAIN PayloadOf

\* The values of payload type T.
Payload(T) == [type : {T}, value : 1..NumValues]

\* Result<T>
Result(T) == {Ok(d) : d \in Payload(T)} \cup {Err(e) : e \in Errors}

QueryResponse ==
    UNION {[variant : {v}, res : Result(PayloadOf[v])] : v \in QueryResponseVariants}

(***************************************************************************)
(* Typed extraction: the try_from! macro and its instantiations.           *)
(***************************************************************************)
\* pub enum TryFromError { WrongType, Response(Error) }
WrongType == [variant |-> "WrongType"]
Response(error) == [variant |-> "Response", error |-> error]

\* try_from!($ok_type, $($variant),*): the instantiations, one per line.
TryFromInstances ==
    {<<"IData", {"GetBlob"}>>,
     <<"Map", {"GetMap", "GetMapShell"}>>,
     <<"u64", {"GetMapVersion"}>>,
     <<"MapEntries", {"ListMapEntries"}>>,
     <<"BTreeSet<Vec<u8>>", {"ListMapKeys"}>>,
     <<"MapValues", {"ListMapValues"}>>,
     <<"MapPermissionSet", {"ListMapUserPermissions"}>>,
     <<"BTreeMap<PublicKey, MapPermissionSet>", {"ListMapPermissions"}>>,
     <<"MapValue", {"GetMapValue"}>>,
     <<"Sequence", {"GetSequence"}>>,
     <<"SequenceOwner", {"GetSequenceOwner"}>>,
     <<"SequenceEntries", {"GetSequenceRange"}>>,
     <<"(u64, SequenceEntry)", {"GetSequenceLastEntry"}>>,
     <<"SequencePermissions", {"GetSequencePermissions"}>>,
     <<"SequenceUserPermissions", {"GetSequenceUserPermissions"}>>,
     <<"Money", {"GetBalance"}>>,
     <<"ReplicaPublicKeySet", {"GetReplicaKeys"}>>,
     <<"Vec<ReplicaEvent>", {"GetHistory"}>>,
     <<"(BTreeMap<PublicKey, AppPermissions>, u64)", {"ListAuthKeysAndVersion"}>>,
     <<"(Vec<u8>, Signature)", {"GetAccount"}>>}

\* The types that implement TryFrom<QueryResponse>.
TryFromTypes == {inst[1] : inst \in TryFromInstances}

\* The instantiation for Map written without GetMapShell.
TryFromVariants_shell_missing(T) ==
    (CHOOSE inst \in TryFromInstances : inst[1] = T)[2] \ {"GetMapShell"}

\* The variants listed in the instantiation for type T.
TryFromVariants(T) == (CHOOSE inst \in TryFromInstances : inst[1] = T)[2]

\* <T as TryFrom<QueryResponse>>::try_from
try_from(T, response) ==
    IF response.variant \in TryFromVariants(T)
    THEN CASE response.res.tag = "Ok" -> Ok(response.res.data)
           [] response.res.tag = "Err" -> Err(Response(response.res.error))
    ELSE Err(WrongType)

(***************************************************************************)
(* Debug rendering of a QueryResponse.                                     *)
(***************************************************************************)
\* impl Debug for ErrorDebug<T>: the error's own rendering, or a fixed
\* placeholder for a success.
ErrorDebug(res) == IF res.tag = "Err" THEN res.error ELSE "Success"

\* fmt with the names of the two map permission listings exchanged.
fmt_swapped(response) ==
    CASE response.variant = "GetBlob" ->
            "QueryResponse::GetBlob(" \o ErrorDebug(response.res) \o ")"
      [] response.variant = "GetMap" ->
            "QueryResponse::GetMap(" \o ErrorDebug(response.res) \o ")"
      [] response.variant = "GetMapShell" ->
            "QueryResponse::GetMapShell(" \o ErrorDebug(response.res) \o ")"
      [] response.variant = "GetMapVersion" ->
            "QueryResponse::GetMapVersion(" \o ErrorDebug(response.res) \o ")"
      [] response.variant = "ListMapEntries" ->
            "QueryResponse::ListMapEntries(" \o ErrorDebug(response.res) \o ")"
      [] response.variant = "ListMapKeys" ->
            "QueryResponse::ListMapKeys(" \o ErrorDebug(response.res) \o ")"
      [] response.variant = "ListMapValues" ->
            "QueryResponse::ListMapValues(" \o ErrorDebug(response.res) \o ")"
      [] response.variant = "ListMapPermissions" ->
            "QueryResponse::ListMapUserPermissions(" \o ErrorDebug(response.res) \o ")"
      [] response.variant = "ListMapUserPermissions" ->
            "QueryResponse::ListMapPermissions(" \o ErrorDebug(response.res) \o ")"
      [] response.variant = "GetMapValue" ->
            "QueryResponse::GetMapValue(" \o ErrorDebug(response.res) \o ")"
      [] response.variant = "GetSequence" ->
            "QueryResponse::GetSequence(" \o ErrorDebug(response.res) \o ")"
      [] response.variant = "GetSequenceRange" ->
            "QueryResponse::GetSequenceRange(" \o ErrorDebug(response.res) \o ")"
      [] response.variant = "GetSequenceLastEntry" ->
            "QueryResponse::GetSequenceLastEntry(" \o ErrorDebug(response.res) \o ")"
      [] response.variant = "GetSequencePermissions" ->
            "QueryResponse::GetSequencePermissions(" \o ErrorDebug(response.res) \o ")"
      [] response.variant = "GetSequenceUserPermissions" ->
            "QueryResponse::GetSequenceUserPermissions(" \o ErrorDebug(response.res) \o ")"
      [] response.variant = "GetSequenceOwner" ->
            "QueryResponse::GetSequenceOwner(" \o ErrorDebug(response.res) \o ")"
      [] response.variant = "GetReplicaKeys" ->
            "QueryResponse::GetReplicaKeys(" \o ErrorDebug(response.res) \o ")"
      [] response.variant = "GetBalance" ->
            "QueryResponse::GetBalance(" \o ErrorDebug(response.res) \o ")"
      [] response.variant = "GetHistory" ->
            "QueryResponse::GetHistory(" \o ErrorDebug(response.res) \o ")"
      [] response.variant = "GetAccount" ->
            "QueryResponse::GetAccount(" \o ErrorDebug(response.res) \o ")"
      [] response.variant = "ListAuthKeysAndVersion" ->
            "QueryResponse::ListAuthKeysAndVersion(" \o ErrorDebug(response.res) \o ")"

\* <QueryResponse as fmt::Debug>::fmt
fmt(response) ==
    CASE response.variant = "GetBlob" ->
            "QueryResponse::GetBlob(" \o ErrorDebug(response.res) \o ")"
      [] response.variant = "GetMap" ->
            "QueryResponse::GetMap(" \o ErrorDebug(response.res) \o ")"
      [] response.variant = "GetMapShell" ->
            "QueryResponse::GetMapShell(" \o ErrorDebug(response.res) \o ")"
      [] response.variant = "GetMapVersion" ->
            "QueryResponse::GetMapVersion(" \o ErrorDebug(response.res) \o ")"
      [] response.variant = "ListMapEntries" ->
            "QueryResponse::ListMapEntries(" \o ErrorDebug(response.res) \o ")"
      [] response.variant = "ListMapKeys" ->
            "QueryResponse::ListMapKeys(" \o ErrorDebug(response.res) \o ")"
      [] response.variant = "ListMapValues" ->
            "QueryResponse::ListMapValues(" \o ErrorDebug(response.res) \o ")"
      [] response.variant = "ListMapPermissions" ->
            "QueryResponse::ListMapPermissions(" \o ErrorDebug(response.res) \o ")"
      [] response.variant = "ListMapUserPermissions" ->
            "QueryResponse::ListMapUserPermissions(" \o ErrorDebug(response.res) \o ")"
      [] response.variant = "GetMapValue" ->
            "QueryResponse::GetMapValue(" \o ErrorDebug(response.res) \o ")"
      [] response.variant = "GetSequence" ->
            "QueryResponse::GetSequence(" \o ErrorDebug(response.res) \o ")"
      [] response.variant = "GetSequenceRange" ->
            "QueryResponse::GetSequenceRange(" \o ErrorDebug(response.res) \o ")"
      [] response.variant = "GetSequenceLastEntry" ->
            "QueryResponse::GetSequenceLastEntry(" \o ErrorDebug(response.res) \o ")"
      [] response.variant = "GetSequencePermissions" ->
            "QueryResponse::GetSequencePermissions(" \o ErrorDebug(response.res) \o ")"
      [] response.variant = "GetSequenceUserPermissions" ->
            "QueryResponse::GetSequenceUserPermissions(" \o ErrorDebug(response.res) \o ")"
      [] response.variant = "GetSequenceOwner" ->
            "QueryResponse::GetSequenceOwner(" \o ErrorDebug(response.res) \o ")"
      [] response.variant = "GetReplicaKeys" ->
            "QueryResponse::GetReplicaKeys(" \o ErrorDebug(response.res) \o ")"
      [] response.variant = "GetBalance" ->
            "QueryResponse::GetBalance(" \o ErrorDebug(response.res) \o ")"
      [] response.variant = "GetHistory" ->
            "QueryResponse::GetHistory(" \o ErrorDebug(response.res) \o ")"
      [] response.variant = "GetAccount" ->
            "QueryResponse::GetAccount(" \o ErrorDebug(response.res) \o ")"
      [] response.variant = "ListAuthKeysAndVersion" ->
            "QueryResponse::ListAuthKeysAndVersion(" \o ErrorDebug(response.res) \o ")"

(***************************************************************************)
(* Message: the 8 message kinds.                                           *)
(***************************************************************************)
\* Responses carried by the envelopes of the model.
EnvelopeResponses ==
    {[variant |-> "GetBlob", res |-> Ok([type |-> "IData", value |-> 1])],
     [variant |-> "GetBalance", res |-> Err("AccessDenied")]}

Message ==
    [variant : {"Cmd"}, cmd : Cmd, id : MessageId]
    \cup [variant : {"Query"}, query : Query, id : MessageId]
    \cup [variant : {"Event"}, event : Event, id : MessageId,
          correlation_id : MessageId]
    \cup [variant : {"QueryResponse"}, response : EnvelopeResponses, id : MessageId,
          correlation_id : MessageId, query_origin : Address]
    \cup [variant : {"CmdError"}, error : CmdError, id : MessageId,
          correlation_id : MessageId, cmd_origin : Address]
    \cup [variant : {"NetworkCmd"}, cmd : NetworkCmd, id : MessageId]
    \cup [variant : {"NetworkCmdError"}, error : NetworkCmdError, id : MessageId,
          correlation_id : MessageId, cmd_origin : Address]
    \cup [variant : {"NetworkEvent"}, event : NetworkEvent, id : MessageId,
          correlation_id : MessageId]

MessageVariants ==
    {"Cmd", "Query", "Event", "QueryResponse", "CmdError", "NetworkCmd",
     "NetworkCmdError", "NetworkEvent"}

\* The variants that carry a correlation_id.
Correlated == {"Event", "QueryResponse", "CmdError", "NetworkCmdError", "NetworkEvent"}

\* Message::id with the Event arm reading the wrong field.
Message_id_correlation(m) ==
    CASE m.variant = "Event" -> m.correlation_id
      [] m.variant \in MessageVariants \ {"Event"} -> m.id

\* Message::id
Message_id(m) ==
    CASE m.variant = "Cmd" -> m.id
      [] m.variant = "Query" -> m.id
      [] m.variant = "Event" -> m.id
      [] m.variant = "QueryResponse" -> m.id
      [] m.variant = "CmdError" -> m.id
      [] m.variant = "NetworkCmd" -> m.id
      [] m.variant = "NetworkEvent" -> m.id
      [] m.variant = "NetworkCmdError" -> m.id

(***************************************************************************)
(* MsgEnvelope and its methods.                                            *)
(***************************************************************************)
SeqsUpTo(S, n) == UNION {[1..k -> S] : k \in 0..n}

MsgEnvelope == [message : Message, origin : MsgSender, proxies : Seq(MsgSender)]

\* MsgEnvelope::id
MsgEnvelope_id(e) == Message_id(e.message)

\* add_proxy that overwrites the most recent proxy instead of appending.
add_proxy_overwrite(e, proxy) ==
    [e EXCEPT !.proxies =
        IF e.proxies = <<>> THEN <<proxy>>
        ELSE [e.proxies EXCEPT ![Len(e.proxies)] = proxy]]

\* add_proxy that inserts at the front of the list.
add_proxy_prepend(e, proxy) == [e EXCEPT !.proxies = <<proxy>> \o e.proxies]

\* add_proxy that also re-stamps a correlated message with its own id.
add_proxy_restamp(e, proxy) ==
    [e EXCEPT !.proxies = Append(e.proxies, proxy),
              !.message = IF e.message.variant \in Correlated
                          THEN [e.message EXCEPT !.correlation_id = e.message.id]
                          ELSE e.message]

\* MsgEnvelope::add_proxy
add_proxy(e, proxy) == [e EXCEPT !.proxies = Append(e.proxies, proxy)]

\* most_recent_sender that reads the first proxy.
most_recent_sender_first(e) ==
    IF e.proxies = <<>> THEN e.origin ELSE e.proxies[1]

\* MsgEnvelope::most_recent_sender
most_recent_sender(e) ==
    IF e.proxies = <<>> THEN e.origin ELSE e.proxies[Len(e.proxies)]

\* destination that re-tags the echoed origin of a response or error as a client.
destination_retag_origin(e) ==
    LET m == e.message IN
    CASE m.variant = "Cmd" -> AddressSection(Cmd_dst_address(m.cmd))
      [] m.variant = "Query" -> AddressSection(Query_dst_address(m.query))
      [] m.variant = "Event" -> AddressClient(Event_dst_address(m.event))
      [] m.variant = "QueryResponse" -> AddressClient(xorname(m.query_origin))
      [] m.variant = "CmdError" -> AddressClient(xorname(m.cmd_origin))
      [] m.variant = "NetworkCmd" -> NetworkCmd_dst_address(m.cmd)
      [] m.variant = "NetworkEvent" -> NetworkEvent_dst_address(m.event)
      [] m.variant = "NetworkCmdError" -> AddressClient(xorname(m.cmd_origin))

\* destination that sends events to the section of the subject.
destination_event_section(e) ==
    LET m == e.message IN
    CASE m.variant = "Cmd" -> AddressSection(Cmd_dst_address(m.cmd))
      [] m.variant = "Query" -> AddressSection(Query_dst_address(m.query))
      [] m.variant = "Event" -> AddressSection(Event_dst_address(m.event))
      [] m.variant = "QueryResponse" -> m.query_origin
      [] m.variant = "CmdError" -> m.cmd_origin
      [] m.variant = "NetworkCmd" -> NetworkCmd_dst_address(m.cmd)
      [] m.variant = "NetworkEvent" -> NetworkEvent_dst_address(m.event)
      [] m.variant = "NetworkCmdError" -> m.cmd_origin

\* destination that wraps the network cmd's/event's address as a section.
destination_retag_network(e) ==
    LET m == e.message IN
    CASE m.variant = "Cmd" -> AddressSection(Cmd_dst_address(m.cmd))
      [] m.variant = "Query" -> AddressSection(Query_dst_address(m.query))
      [] m.variant = "Event" -> AddressClient(Event_dst_address(m.event))
      [] m.variant = "QueryResponse" -> m.query_origin
      [] m.variant = "CmdError" -> m.cmd_origin
      [] m.variant = "NetworkCmd" -> AddressSection(xorname(NetworkCmd_dst_address(m.cmd)))
      [] m.variant = "NetworkEvent" -> AddressSection(xorname(NetworkEvent_dst_address(m.event)))
      [] m.variant = "NetworkCmdError" -> m.cmd_origin

\* destination that sends a response back to whoever handed the envelope over.
destination_via_sender(e) ==
    LET m == e.message
        sender == most_recent_sender(e) IN
    CASE m.variant = "Cmd" -> AddressSection(Cmd_dst_address(m.cmd))
      [] m.variant = "Query" -> AddressSection(Query_dst_address(m.query))
      [] m.variant = "Event" -> AddressClient(Event_dst_address(m.event))
      [] m.variant = "QueryResponse" -> [tag |-> sender.variant, name |-> address(sender)]
      [] m.variant = "CmdError" -> m.cmd_origin
      [] m.variant = "NetworkCmd" -> NetworkCmd_dst_address(m.cmd)
      [] m.variant = "NetworkEvent" -> NetworkEvent_dst_address(m.event)
      [] m.variant = "NetworkCmdError" -> m.cmd_origin

\* MsgEnvelope::destination
destination(e) ==
    LET m == e.message IN
    CASE m.variant = "Cmd" -> AddressSection(Cmd_dst_address(m.cmd))
      [] m.variant = "Query" -> AddressSection(Query_dst_address(m.query))
      [] m.variant = "Event" -> AddressClient(Event_dst_address(m.event))
      [] m.variant = "QueryResponse" -> m.query_origin
      [] m.variant = "CmdError" -> m.cmd_origin
      [] m.variant = "NetworkCmd" -> NetworkCmd_dst_address(m.cmd)
      [] m.variant = "NetworkEvent" -> NetworkEvent_dst_address(m.event)
      [] m.variant = "NetworkCmdError" -> m.cmd_origin

(***************************************************************************)
(* The life of one envelope: it is constructed (any field values, the      *)
(* struct is plain data), relays call add_proxy, and any holder may call   *)
(* the read-only methods.                                                  *)
(*   env     the envelope                                                  *)
(*   initial the envelope as constructed                                   *)
(*   calls   the arguments of the add_proxy calls made so far, in order    *)
(*   cause   the id of the message that caused env.message (correlated     *)
(*           kinds), known to the constructing caller only                 *)
(*   ret     the last method called and what it returned                   *)
(*   response the query response handed to extraction and rendering        *)
(***************************************************************************)
VARIABLES env, initial, calls, cause, ret, response

vars == <<env, initial, calls, cause, ret, response>>

NoCause == [name |-> 0]
NoResponse == [variant |-> "None"]

\* One message of each kind, as a caller that respects the correlation
\* contract builds it: id 1, caused by the message with id NumIds.
ForwardedMessages ==
    LET id == [name |-> 1]
        correlation_id == [name |-> NumIds] IN
    {[variant |-> "Cmd", cmd |-> [kind |-> "Data", target |-> 1], id |-> id],
     [variant |-> "Query", query |-> [kind |-> "Data", target |-> NumNames], id |-> id],
     [variant |-> "Event", event |-> [variant |-> "TransferValidated", from |-> 1],
      id |-> id, correlation_id |-> correlation_id],
     [variant |-> "QueryResponse",
      response |-> [variant |-> "GetBalance", res |-> Err("AccessDenied")],
      id |-> id, correlation_id |-> correlation_id, query_origin |-> AddressClient(1)],
     [variant |-> "CmdError", error |-> [variant |-> "Auth", error |-> "AccessDenied"],
      id |-> id, correlation_id |-> correlation_id, cmd_origin |-> AddressClient(NumNames)],
     [variant |-> "NetworkCmd",
      cmd |-> [kind |-> "Replicate", target |-> AddressNode(1)], id |-> id],
     [variant |-> "NetworkCmdError", error |-> "NetworkData",
      id |-> id, correlation_id |-> correlation_id, cmd_origin |-> AddressNode(1)],
     [variant |-> "NetworkEvent",
      event |-> [kind |-> "Replicated", target |-> AddressSection(1)],
      id |-> id, correlation_id |-> correlation_id]}

\* Envelopes in transit: any origin, any proxies so far, relays appending.
Init ==
    /\ env \in [message : ForwardedMessages, origin : MsgSender,
                 proxies : SeqsUpTo(MsgSender, MaxInitProxies)]
    /\ initial = env
    /\ calls = <<>>
    /\ cause = IF env.message.variant \in Correlated THEN [name |-> NumIds] ELSE NoCause
    /\ ret = [op |-> "none"]
    /\ response = NoResponse

\* Envelopes handed to routing: any message the types admit, fresh from its
\* origin.
InitRoute ==
    /\ env \in [message : Message, origin : MsgSender, proxies : {<<>>}]
    /\ initial = env
    /\ calls = <<>>
    /\ cause \in (IF env.message.variant \in Correlated THEN MessageId ELSE {NoCause})
    /\ ret = [op |-> "none"]
    /\ response = NoResponse

AddProxyUpTo(n) ==
    /\ Len(calls) < n
    /\ \E proxy \in MsgSender :
        /\ env' = add_proxy(env, proxy)
        /\ calls' = Append(calls, proxy)
        /\ ret' = [op |-> "add_proxy"]
    /\ UNCHANGED <<initial, cause, response>>

CallId ==
    /\ ret' = [op |-> "id", val |-> MsgEnvelope_id(env)]
    /\ UNCHANGED <<env, initial, calls, cause, response>>

CallMostRecentSender ==
    /\ ret' = [op |-> "most_recent_sender", val |-> most_recent_sender(env)]
    /\ UNCHANGED <<env, initial, calls, cause, response>>

CallDestination ==
    /\ ret' = [op |-> "destination", val |-> destination(env)]
    /\ UNCHANGED <<env, initial, calls, cause, response>>

AddProxy == AddProxyUpTo(MaxCalls)

Forward == AddProxyUpTo(MaxHops)

Next == AddProxy \/ CallId \/ CallMostRecentSender \/ CallDestination

Spec == Init /\ [][Next]_vars

NextRoute == Forward \/ CallId \/ CallMostRecentSender \/ CallDestination

SpecRoute == InitRoute /\ [][NextRoute]_vars

(***************************************************************************)
(* The life of one query response at its receiver: it arrives (any variant *)
(* wrapping any result), and the receiver narrows it to a payload type or  *)
(* renders it for a log.  The envelope that carried it plays no part.      *)
(***************************************************************************)
DeliveredEnvelope ==
    [message |-> [variant |-> "QueryResponse",
                  response |-> [variant |-> "GetBalance", res |-> Err("AccessDenied")],
                  id |-> [name |-> 1], correlation_id |-> [name |-> NumIds],
                  query_origin |-> AddressClient(1)],
     origin |-> [variant |-> "Client", id |-> 1, signature |-> "sig"],
     proxies |-> <<>>]

InitExtract ==
    /\ response \in QueryResponse
    /\ env = DeliveredEnvelope
    /\ initial = env
    /\ calls = <<>>
    /\ cause = [name |-> NumIds]
    /\ ret = [op |-> "none"]

CallTryFrom ==
    /\ \E T \in TryFromTypes :
        ret' = [op |-> "try_from", target |-> T, val |-> try_from(T, response)]
    /\ UNCHANGED <<env, initial, calls, cause, response>>

CallFmt ==
    /\ ret' = [op |-> "fmt", val |-> fmt(response)]
    /\ UNCHANGED <<env, initial, calls, cause, response>>

NextExtract == CallTryFrom \/ CallFmt

SpecExtract == InitExtract /\ [][NextExtract]_vars

TypeOK ==
    /\ env.message \in Message
    /\ env.origin \in MsgSender
    /\ initial \in MsgEnvelope
    /\ env \in MsgEnvelope

(***************************************************************************)
(* Properties of the envelope.                                             *)
(***************************************************************************)
IsPrefix(s, t) == Len(s) <= Len(t) /\ SubSeq(t, 1, Len(s)) = s

\* The proxy appended last: the argument of the latest add_proxy call, or
\* the last proxy the envelope was constructed with.
LastAppended ==
    IF calls # <<>> THEN calls[Len(calls)]
    ELSE initial.proxies[Len(initial.proxies)]

\* C1: most_recent_sender() returns origin when proxies is empty and
\* otherwise the proxy appended last, after any sequence of add_proxy calls.
C1_MostRecentSender ==
    LET expected == IF env.proxies = <<>> THEN env.origin ELSE LastAppended IN
    /\ most_recent_sender(env) = expected
    /\ ret.op = "most_recent_sender" => ret.val = expected

\* A then B were appended (A # B, B # origin) and most_recent_sender() gave B.
C1_Witness ==
    /\ ret.op = "most_recent_sender"
    /\ Len(calls) = 2
    /\ calls[1] # calls[2]
    /\ calls[2] # env.origin
    /\ ret.val = calls[2]

\* C2: each add_proxy call lengthens proxies by exactly one and leaves
\* message (id, correlation_id, query_origin/cmd_origin) and origin as they
\* were, so the fields set at construction read the same after any number
\* of calls.
C2_AddProxyFrame ==
    /\ [](/\ env.message = initial.message
          /\ env.origin = initial.origin
          /\ Len(env.proxies) = Len(initial.proxies) + Len(calls))
    /\ [][calls' # calls =>
            /\ Len(env'.proxies) = Len(env.proxies) + 1
            /\ env'.message = env.message
            /\ env'.origin = env.origin]_vars

\* Two add_proxy calls were made on an envelope constructed with one proxy
\* and a correlated message.
C2_Witness ==
    /\ Len(calls) = 2
    /\ Len(initial.proxies) = 1
    /\ Len(env.proxies) = 3
    /\ env.message.variant = "QueryResponse"
    /\ env.message.correlation_id # env.message.id

\* C3: Message::id() is defined for all 8 variants and returns the id field
\* stored at construction whatever the other fields hold (never the
\* correlation_id); MsgEnvelope::id() returns the same value.
C3_IdProjection ==
    /\ env.message.variant \in MessageVariants
    /\ Message_id(env.message) = initial.message.id
    /\ MsgEnvelope_id(env) = Message_id(env.message)
    /\ ret.op = "id" => ret.val = initial.message.id

\* id() was called on an Event whose correlation_id differs from its id.
C3_Witness ==
    /\ ret.op = "id"
    /\ env.message.variant = "Event"
    /\ env.message.correlation_id # env.message.id
    /\ ret.val = env.message.id

\* C4: destination() of a QueryResponse is the query_origin it carries, and
\* of a CmdError or NetworkCmdError the cmd_origin it carries, tag and name
\* unchanged.
C4_PassThrough ==
    LET m == env.message IN
    /\ m.variant = "QueryResponse" => destination(env) = m.query_origin
    /\ m.variant \in {"CmdError", "NetworkCmdError"} => destination(env) = m.cmd_origin
    /\ (ret.op = "destination" /\ m.variant = "QueryResponse") => ret.val = m.query_origin
    /\ (ret.op = "destination" /\ m.variant \in {"CmdError", "NetworkCmdError"})
          => ret.val = m.cmd_origin

\* destination() was called on a response whose query_origin is not a client.
C4_Witness ==
    /\ ret.op = "destination"
    /\ env.message.variant = "QueryResponse"
    /\ env.message.query_origin = AddressNode(NumNames)
    /\ ret.val = AddressNode(NumNames)

\* C5 as stated: Event, QueryResponse and CmdError always go to a Client
\* address, Cmd and Query always to a Section address.
C5_Original ==
    LET m == env.message IN
    /\ m.variant \in {"Event", "QueryResponse", "CmdError"} => destination(env).tag = "Client"
    /\ m.variant \in {"Cmd", "Query"} => destination(env).tag = "Section"

\* C5 (amended): an Event goes to a Client address and a Cmd or Query to a
\* Section address; a QueryResponse or CmdError goes to an address with the
\* tag of the origin it carries, a Client address exactly when that origin
\* is a Client address.
C5_TagByKind ==
    LET m == env.message IN
    /\ m.variant = "Event" => destination(env).tag = "Client"
    /\ m.variant \in {"Cmd", "Query"} => destination(env).tag = "Section"
    /\ m.variant = "QueryResponse" => destination(env).tag = m.query_origin.tag
    /\ m.variant = "CmdError" => destination(env).tag = m.cmd_origin.tag
    /\ (ret.op = "destination" /\ m.variant = "Event") => ret.val.tag = "Client"
    /\ (ret.op = "destination" /\ m.variant \in {"Cmd", "Query"}) => ret.val.tag = "Section"

\* destination() was called on an Event and gave a Client address.
C5_Witness ==
    /\ ret.op = "destination"
    /\ env.message.variant = "Event"
    /\ ret.val.tag = "Client"

C9_Resolution ==
    LET m == env.message
        d == destination(env) IN
    /\ m.variant = "Cmd" => d = [tag |-> "Section", name |-> Cmd_dst_address(m.cmd)]
    /\ m.variant = "Query" => d = [tag |-> "Section", name |-> Query_dst_address(m.query)]
    /\ m.variant = "Event" =>
          /\ d = [tag |-> "Client", name |-> Event_dst_address(m.event)]
          /\ d.name = PublicKeyIntoXorName(m.event.from)
    /\ m.variant = "NetworkCmd" => d = NetworkCmd_dst_address(m.cmd)
    /\ m.variant = "NetworkEvent" => d = NetworkEvent_dst_address(m.event)
    /\ ret.op = "destination" => ret.val = d

\* destination() was called on a NetworkCmd that resolves to a Node address.
C9_Witness ==
    /\ ret.op = "destination"
    /\ env.message.variant = "NetworkCmd"
    /\ NetworkCmd_dst_address(env.message.cmd).tag = "Node"
    /\ ret.val = NetworkCmd_dst_address(env.message.cmd)

\* C10: proxies only grows at its end: each step keeps the previous list as
\* a prefix of the new one, and after add_proxy calls p1..pn on an envelope
\* constructed with proxies P the list is P followed by p1..pn in call
\* order, duplicates included.
C10_AppendOnly ==
    /\ [](env.proxies = initial.proxies \o calls)
    /\ [][IsPrefix(env.proxies, env'.proxies)]_vars

\* The same proxy was appended twice to an envelope constructed with one.
C10_Witness ==
    /\ Len(initial.proxies) = 1
    /\ Len(calls) = 2
    /\ calls[1] = calls[2]
    /\ calls[1] # initial.proxies[1]
    /\ env.proxies = <<initial.proxies[1], calls[1], calls[1]>>

(***************************************************************************)
(* Properties of extraction and rendering.                                 *)
(***************************************************************************)
\* The variants whose payload type is T, as QueryResponse declares them.
VariantsOfType(T) == {v \in QueryResponseVariants : PayloadOf[v] = T}

PayloadTypes == {PayloadOf[v] : v \in QueryResponseVariants}

\* What extraction to T must give for response r.
Extracted(T, r) ==
    IF r.variant \in VariantsOfType(T)
    THEN IF r.res.tag = "Ok" THEN [tag |-> "Ok", data |-> r.res.data]
         ELSE [tag |-> "Err", error |-> [variant |-> "Response", error |-> r.res.error]]
    ELSE [tag |-> "Err", error |-> [variant |-> "WrongType"]]

\* C6: extraction to payload type T is bound to the variants that wrap T
\* (GetMap and GetMapShell for Map, exactly one variant for every other
\* type): such a variant wrapping Ok(v) yields Ok(v), wrapping Err(e) yields
\* Err(Response(e)), and any other variant yields Err(WrongType) whether it
\* wraps Ok or Err.
C6_Extraction ==
    /\ TryFromTypes = PayloadTypes
    /\ VariantsOfType("Map") = {"GetMap", "GetMapShell"}
    /\ \A T \in PayloadTypes \ {"Map"} : Cardinality(VariantsOfType(T)) = 1
    /\ \A T \in PayloadTypes : try_from(T, response) = Extracted(T, response)
    /\ ret.op = "try_from" => ret.val = Extracted(ret.target, response)

\* GetMapShell(Err(AccessDenied)) was extracted as a Map.
C6_Witness ==
    /\ ret.op = "try_from"
    /\ ret.target = "Map"
    /\ response = [variant |-> "GetMapShell", res |-> Err("AccessDenied")]
    /\ ret.val = Err(Response("AccessDenied"))

\* C8: a QueryResponse renders as "QueryResponse::<V>(<inner>)" with <V> the
\* name of its own variant; <inner> is the rendering of e when it wraps
\* Err(e), and when it wraps Ok a placeholder that is the same for every
\* payload.
C8_DebugFormat ==
    LET inner == IF response.res.tag = "Err" THEN response.res.error
                 ELSE ErrorDebug(response.res)
        text == "QueryResponse::" \o response.variant \o "(" \o inner \o ")" IN
    /\ response.variant \in QueryResponseVariants
    /\ fmt(response) = text
    /\ response.res.tag = "Ok" =>
          \A d \in Payload(PayloadOf[response.variant]) :
              fmt([response EXCEPT !.res = Ok(d)]) = text
    /\ ret.op = "fmt" => ret.val = text

\* GetSequence(Err(AccessDenied)) was rendered.
C8_Witness ==
    /\ ret.op = "fmt"
    /\ response = [variant |-> "GetSequence", res |-> Err("AccessDenied")]
    /\ ret.val = "QueryResponse::GetSequence(AccessDenied)"

(***************************************************************************)
(* Properties of the read-only methods.                                    *)
(***************************************************************************)
\* Envelopes that wrap the message of env with any origin and with no proxy
\* or any single proxy; env itself ranges over every origin and over proxies
\* of every length up to MaxHops.
SameMessage ==
    [message : {env.message}, origin : MsgSender, proxies : SeqsUpTo(MsgSender, 1)]

\* C11: destination() and id() depend on the wrapped message only: every
\* envelope with the same message, whatever its origin and proxies, gives
\* the same destination() and id(), so both are the same before and after
\* any add_proxy calls; and a call of destination(), id() or
\* most_recent_sender() leaves the envelope as it was.
C11_MessageOnly ==
    /\ [](/\ \A other \in SameMessage :
                /\ destination(other) = destination(env)
                /\ MsgEnvelope_id(other) = MsgEnvelope_id(env)
          /\ destination(env) = destination(initial)
          /\ MsgEnvelope_id(env) = MsgEnvelope_id(initial)
          /\ ret.op = "destination" => ret.val = destination(initial)
          /\ ret.op = "id" => ret.val = MsgEnvelope_id(initial))
    /\ [][ret'.op \in {"destination", "id", "most_recent_sender"} => env' = env]_vars

\* destination() was called on a forwarded response whose most recent
\* sender is not its origin, and gave what the envelope as constructed gives.
C11_Witness ==
    /\ ret.op = "destination"
    /\ env.message.variant = "QueryResponse"
    /\ Len(calls) = 1
    /\ calls[1] # env.origin
    /\ env # initial
    /\ ret.val = destination(initial)
====
